---- MODULE Spec2Model ----
(***************************************************************************)
(* Model of the dashboard backend.                                         *)
(*                                                                         *)
(* Report scheduling, src/src/models/report.model.ts:                      *)
(*     - reportSchema.schedule validators                                  *)
(*     - reportSchema.pre('save')                                          *)
(*     - calculateNextRun                                                  *)
(* Messages:                                                               *)
(*     - messageSchema save hooks, src/src/models/reportTemplate.model.ts  *)
(*     - sendMessage, updateMessage, deleteMessage, src/unnamed/part_001   *)
(*     - the message routes, src/src/routes/attendance.routes.ts           *)
(*                                                                         *)
(* Instants are whole seconds since 1970-01-01T00:00:00 (the sub-second    *)
(* part of a JavaScript Date is folded into the second).  The server's     *)
(* local time zone is taken to be UTC without daylight saving, so that the *)
(* local-time Date accessors used by the code coincide with the UTC ones.  *)
(***************************************************************************)
EXTENDS Integers, Sequences, FiniteSets, TLC

VARIABLES now, doc, stored, outcome, saves

\* the message collection, the next identifier to hand out, the save()
\* calls in flight, the last request served, its response status and the
\* calls its handler made on its database session
VARIABLES msgs, nextId, tasks, req, resp, session

\* for every message, the document as it was first handed to save()
VARIABLE created

\* the report, department, report template and event collections, the
\* event registrations in flight, and the last response of their handlers
VARIABLES reports, dept, tmpl, event, regs, reply

reportVars == <<now, doc, stored, outcome, saves>>

msgVars == <<msgs, nextId, tasks, req, resp, session, created>>

appVars == <<reports, dept, tmpl, event, regs, reply>>

vars ==
  <<now, doc, stored, outcome, saves, msgs, nextId, tasks, req, resp, session,
    created, reports, dept, tmpl, event, regs, reply>>

----------------------------------------------------------------------------
(* Bounds *)

\* last calendar year from which the clock is drawn
MaxYear == 2024

\* number of save() calls in one behaviour of the hook specification
MaxSaves == 2

\* number of messages ever created in one behaviour
MaxMsgs == 3

\* number of message save() calls that may be in flight at once
MaxTasks == 2

\* number of messages the request handlers create in one behaviour
MaxSent == 2

\* number of event registrations that may be in flight at once
MaxRegs == 2

\* reports a run creates
MaxReports == 2

\* highest version a template reaches
MaxVersion == 4

\* largest maxAttendees of an event
MaxSeats == 2

----------------------------------------------------------------------------
(* The message collection before any request *)

\* a slot with no save() in flight
IdleTask == [pc |-> "idle"]

NoRequest == [op |-> "none"]

\* no message stored, no save in flight, no request served
MsgIdle ==
  /\ msgs = <<>>
  /\ nextId = 1
  /\ tasks = [s \in 1..MaxTasks |-> IdleTask]
  /\ req = NoRequest
  /\ resp = 0
  /\ session = <<>>
  /\ created = <<>>

\* the response of a handler: what was asked, for which id, and the status
Reply(op, id, status) == [op |-> op, id |-> id, status |-> status]

\* no request served yet
NoReply == Reply("none", 0, 0)

\* a collection that holds no document of the kind
Absent == [exists |-> FALSE]

\* a slot with no registration in flight
IdleReg == [pc |-> "idle"]

\* no report, department, template or event stored, no request served
AppIdle ==
  /\ reports = {}
  /\ dept = Absent
  /\ tmpl = Absent
  /\ event = Absent
  /\ regs = [s \in 1..MaxRegs |-> IdleReg]
  /\ reply = NoReply

----------------------------------------------------------------------------
(* JavaScript Date arithmetic, as used by calculateNextRun *)

\* an optional number that is absent (dayOfWeek?, dayOfMonth?, nextRun?)
Undefined == 0 - 1

SecPerDay == 24 * 60 * 60

IsLeap(y) == (y % 4 = 0 /\ y % 100 # 0) \/ y % 400 = 0

DaysInMonth(y, m) ==
  IF m = 1 THEN (IF IsLeap(y) THEN 29 ELSE 28)
  ELSE IF m \in {3, 5, 8, 10} THEN 30 ELSE 31

\* number of the first day of year y, counted from 1970-01-01
DayFromYear(y) ==
  365 * (y - 1970) + ((y - 1969) \div 4) - ((y - 1901) \div 100)
    + ((y - 1601) \div 400)

RECURSIVE DaysBeforeMonth(_, _)
DaysBeforeMonth(y, m) ==
  IF m = 0 THEN 0 ELSE DaysBeforeMonth(y, m - 1) + DaysInMonth(y, m - 1)

\* ECMAScript MakeDay: month (0-based) and date may lie outside their
\* natural range and then carry over into the following months and years
MakeDay(year, month, date) ==
  LET ym == year + (month \div 12)
      mn == month % 12
  IN DayFromYear(ym) + DaysBeforeMonth(ym, mn) + date - 1

Day(t) == t \div SecPerDay

TimeWithinDay(t) == t % SecPerDay

YearFromTime(t) ==
  LET y0 == 1970 + (Day(t) \div 366)
  IN CHOOSE y \in y0..(y0 + 1) :
       DayFromYear(y) <= Day(t) /\ Day(t) < DayFromYear(y + 1)

\* getFullYear()
GetFullYear(t) == YearFromTime(t)

\* getMonth(), 0-based
GetMonth(t) ==
  LET y == YearFromTime(t)
      d == Day(t) - DayFromYear(y)
  IN CHOOSE m \in 0..11 :
       DaysBeforeMonth(y, m) <= d /\ d < DaysBeforeMonth(y, m) + DaysInMonth(y, m)

\* getDate(), 1-based day of the month
GetDate(t) ==
  LET y == YearFromTime(t)
  IN Day(t) - DayFromYear(y) - DaysBeforeMonth(y, GetMonth(t)) + 1

\* getDay(), 0 = Sunday .. 6 = Saturday
GetDay(t) == (Day(t) + 4) % 7

\* getHours()
GetHours(t) == TimeWithinDay(t) \div 3600

\* getMinutes()
GetMinutes(t) == (TimeWithinDay(t) % 3600) \div 60

\* getSeconds()
GetSeconds(t) == TimeWithinDay(t) % 60

\* new Date(year, month, date)
NewDate(year, month, date) == MakeDay(year, month, date) * SecPerDay

\* setHours(hours, minutes, seconds, ms)
SetHours(t, hours, minutes, seconds) ==
  Day(t) * SecPerDay + hours * 3600 + minutes * 60 + seconds

\* setMinutes(minutes)
SetMinutes(t, minutes) ==
  Day(t) * SecPerDay + GetHours(t) * 3600 + minutes * 60 + GetSeconds(t)

\* setDate(date)
SetDate(t, date) ==
  MakeDay(GetFullYear(t), GetMonth(t), date) * SecPerDay + TimeWithinDay(t)

\* setMonth(month): keeps the day of the month, which overflows into the
\* following month when the target month is shorter
SetMonth(t, month) ==
  MakeDay(GetFullYear(t), month, GetDate(t)) * SecPerDay + TimeWithinDay(t)

\* the instant year-month-date hours:minutes:seconds, month 0-based
Instant(year, month, date, hours, minutes, seconds) ==
  SetHours(NewDate(year, month, date), hours, minutes, seconds)

----------------------------------------------------------------------------
(* Strings: the schedule's time is a sequence of characters *)

Digits == <<"0", "1", "2", "3", "4", "5", "6", "7", "8", "9">>

IsDigit(c) == \E i \in 1..10 : Digits[i] = c

DigitValue(c) == (CHOOSE i \in 1..10 : Digits[i] = c) - 1

\* Number(s) for a string of decimal digits
RECURSIVE ToNumber(_)
ToNumber(s) ==
  IF Len(s) = 0 THEN 0
  ELSE 10 * ToNumber(SubSeq(s, 1, Len(s) - 1)) + DigitValue(s[Len(s)])

\* time.split(':')
RECURSIVE Split(_)
Split(s) ==
  IF \A i \in 1..Len(s) : s[i] # ":" THEN <<s>>
  ELSE LET k == CHOOSE i \in 1..Len(s) :
                  s[i] = ":" /\ \A j \in 1..(i - 1) : s[j] # ":"
       IN <<SubSeq(s, 1, k - 1)>> \o Split(SubSeq(s, k + 1, Len(s)))

\* variant: the hour alternative 2[0-3] widened to 2\d
TimeMatchesLoose(s) ==
  /\ Len(s) = 5
  /\ \/ s[1] \in {"0", "1"} /\ IsDigit(s[2])
     \/ s[1] = "2" /\ IsDigit(s[2])
  /\ s[3] = ":"
  /\ s[4] \in {"0", "1", "2", "3", "4", "5"}
  /\ IsDigit(s[5])

\* /^([01]\d|2[0-3]):([0-5]\d)$/
TimeMatches(s) ==
  /\ Len(s) = 5
  /\ \/ s[1] \in {"0", "1"} /\ IsDigit(s[2])
     \/ s[1] = "2" /\ s[2] \in {"0", "1", "2", "3"}
  /\ s[3] = ":"
  /\ s[4] \in {"0", "1", "2", "3", "4", "5"}
  /\ IsDigit(s[5])

----------------------------------------------------------------------------
(* calculateNextRun *)

\* variant: setHours(hours, minutes) without resetting the seconds
TimeOfDayStepKeepSeconds(time, timezone, clock) ==
  LET parts == Split(time)
      hours == ToNumber(parts[1])
      minutes == ToNumber(parts[2])
      nextRun == SetHours(clock, hours, minutes, GetSeconds(clock))
      offset == 0
  IN IF timezone # "UTC"
       THEN SetMinutes(nextRun, GetMinutes(nextRun) - offset)
       ELSE nextRun

\* const [hours, minutes] = time.split(':').map(Number); nextRun = new
\* Date(now); nextRun.setHours(hours, minutes, 0, 0); and the (zero) time
\* zone offset
TimeOfDayStep(time, timezone, clock) ==
  LET parts == Split(time)
      hours == ToNumber(parts[1])
      minutes == ToNumber(parts[2])
      nextRun == SetHours(clock, hours, minutes, 0)
      offset == 0
  IN IF timezone # "UTC"
       THEN SetMinutes(nextRun, GetMinutes(nextRun) - offset)
       ELSE nextRun

\* variant: the comparison nextRun < now instead of nextRun <= now
AdvanceStepStrict(frequency, dayOfMonth, nextRun, clock) ==
  IF nextRun < clock
    THEN CASE frequency = "daily" -> SetDate(nextRun, GetDate(nextRun) + 1)
           [] frequency = "weekly" -> SetDate(nextRun, GetDate(nextRun) + 7)
           [] frequency = "monthly" ->
                LET moved == SetMonth(nextRun, GetMonth(nextRun) + 1)
                IN IF dayOfMonth # Undefined /\ dayOfMonth # 0
                     THEN LET lastDayOfMonth ==
                                GetDate(NewDate(GetFullYear(moved),
                                                GetMonth(moved) + 1, 0))
                          IN SetDate(moved,
                                     IF dayOfMonth < lastDayOfMonth
                                       THEN dayOfMonth ELSE lastDayOfMonth)
                     ELSE moved
           [] OTHER -> nextRun
    ELSE nextRun

\* variant: 'custom' advanced by one day like 'daily'
AdvanceStepCustomDaily(frequency, dayOfMonth, nextRun, clock) ==
  IF nextRun <= clock
    THEN CASE frequency \in {"daily", "custom"} ->
                SetDate(nextRun, GetDate(nextRun) + 1)
           [] frequency = "weekly" -> SetDate(nextRun, GetDate(nextRun) + 7)
           [] frequency = "monthly" ->
                LET moved == SetMonth(nextRun, GetMonth(nextRun) + 1)
                IN IF dayOfMonth # Undefined /\ dayOfMonth # 0
                     THEN LET lastDayOfMonth ==
                                GetDate(NewDate(GetFullYear(moved),
                                                GetMonth(moved) + 1, 0))
                          IN SetDate(moved,
                                     IF dayOfMonth < lastDayOfMonth
                                       THEN dayOfMonth ELSE lastDayOfMonth)
                     ELSE moved
           [] OTHER -> nextRun
    ELSE nextRun

\* if (nextRun <= now) switch (frequency) { ... }
AdvanceStep(frequency, dayOfMonth, nextRun, clock) ==
  IF nextRun <= clock
    THEN CASE frequency = "daily" -> SetDate(nextRun, GetDate(nextRun) + 1)
           [] frequency = "weekly" -> SetDate(nextRun, GetDate(nextRun) + 7)
           [] frequency = "monthly" ->
                LET moved == SetMonth(nextRun, GetMonth(nextRun) + 1)
                IN IF dayOfMonth # Undefined /\ dayOfMonth # 0
                     THEN LET lastDayOfMonth ==
                                GetDate(NewDate(GetFullYear(moved),
                                                GetMonth(moved) + 1, 0))
                          IN SetDate(moved,
                                     IF dayOfMonth < lastDayOfMonth
                                       THEN dayOfMonth ELSE lastDayOfMonth)
                     ELSE moved
           [] OTHER -> nextRun
    ELSE nextRun

\* variant: (dayOfWeek - currentDay) % 7 with JavaScript's remainder, which
\* takes the sign of the dividend
WeekdayStepNoWrap(frequency, dayOfWeek, nextRun) ==
  IF frequency = "weekly" /\ dayOfWeek # Undefined
    THEN LET currentDay == GetDay(nextRun)
             diff == dayOfWeek - currentDay
             daysToAdd == IF diff < 0 THEN 0 - ((0 - diff) % 7) ELSE diff % 7
         IN SetDate(nextRun, GetDate(nextRun) + daysToAdd)
    ELSE nextRun

\* if (frequency === 'weekly' && dayOfWeek !== undefined) { ... }
WeekdayStep(frequency, dayOfWeek, nextRun) ==
  IF frequency = "weekly" /\ dayOfWeek # Undefined
    THEN LET currentDay == GetDay(nextRun)
             daysToAdd == (dayOfWeek - currentDay + 7) % 7
         IN SetDate(nextRun, GetDate(nextRun) + daysToAdd)
    ELSE nextRun

\* the clock is what new Date() returns inside the function
calculateNextRun(frequency, dayOfWeek, dayOfMonth, time, timezone, clock) ==
  WeekdayStep(frequency, dayOfWeek,
    AdvanceStep(frequency, dayOfMonth,
      TimeOfDayStep(time, timezone, clock), clock))

----------------------------------------------------------------------------
(* The schedule sub-document, its validators and the pre-save hook *)

Frequencies == {"daily", "weekly", "monthly", "custom"}

Schedule(f, w, d, t, tz, a) ==
  [frequency |-> f, dayOfWeek |-> w, dayOfMonth |-> d, time |-> t,
   timezone |-> tz, active |-> a, nextRun |-> Undefined]

\* schema defaults of a new Report: timezone 'UTC', active true; the empty
\* frequency and the empty time stand for fields that are not set
NewSchedule == Schedule("", Undefined, Undefined, <<>>, "UTC", TRUE)

\* the validators of reportSchema.schedule, which Mongoose runs on save()
\* before the schema's own pre('save') hooks
ValidSchedule(s) ==
  /\ s.frequency # "" => s.frequency \in Frequencies
  /\ s.dayOfWeek # Undefined => (0 <= s.dayOfWeek /\ s.dayOfWeek <= 6)
  /\ s.frequency = "weekly" => s.dayOfWeek # Undefined
  /\ s.dayOfMonth # Undefined => (1 <= s.dayOfMonth /\ s.dayOfMonth <= 31)
  /\ s.frequency = "monthly" => s.dayOfMonth # Undefined
  /\ s.frequency # "" => s.time # <<>>
  /\ s.time # <<>> => TimeMatches(s.time)

\* variant: the hook without the schedule.active condition
PreSaveIgnoreActive(s, clock) ==
  IF s.frequency # "" /\ s.time # <<>>
    THEN [s EXCEPT !.nextRun =
            calculateNextRun(s.frequency, s.dayOfWeek, s.dayOfMonth,
                             s.time, s.timezone, clock)]
    ELSE s

\* reportSchema.pre('save')
PreSave(s, clock) ==
  IF s.active /\ s.frequency # "" /\ s.time # <<>>
    THEN [s EXCEPT !.nextRun =
            calculateNextRun(s.frequency, s.dayOfWeek, s.dayOfMonth,
                             s.time, s.timezone, clock)]
    ELSE s

\* report.save(): validation, then the pre-save hook, then persistence
Save(d) ==
  /\ saves < MaxSaves
  /\ saves' = saves + 1
  /\ IF ValidSchedule(d)
       THEN /\ doc' = PreSave(d, now)
            /\ stored' = PreSave(d, now)
            /\ outcome' = "saved"
       ELSE /\ doc' = d
            /\ stored' = stored
            /\ outcome' = "rejected"
  /\ UNCHANGED now
  /\ UNCHANGED <<msgVars, appVars>>

----------------------------------------------------------------------------
(* Inputs *)

Time0930 == <<"0", "9", ":", "3", "0">>

Time0000 == <<"0", "0", ":", "0", "0">>

Times == {Time0930, Time0000}

DaysOfMonth == {1, 15, 29, 30, 31}

Timezones == {"UTC", "America/New_York"}

\* the schedules the calculator is applied to
CalcSchedules ==
  {Schedule(f, Undefined, Undefined, t, tz, TRUE) :
     <<f, t, tz>> \in {"daily", "custom"} \X Times \X Timezones}
  \cup {Schedule("weekly", w, Undefined, t, "UTC", TRUE) :
          <<w, t>> \in (0..6) \X Times}
  \cup {Schedule("monthly", Undefined, d, t, "UTC", TRUE) :
          <<d, t>> \in DaysOfMonth \X Times}

\* times of day of the clock: before, at and after 09:30, and midnight
ClockTimes == {<<0, 0, 0>>, <<8, 15, 20>>, <<9, 30, 0>>, <<17, 45, 10>>}

\* every day of the years 2023 (365 days) .. MaxYear
CalcInstants ==
  {Instant(y, m, d, c[1], c[2], c[3]) :
     <<y, m, d, c>> \in {x \in (2023..MaxYear) \X (0..11) \X (1..31) \X ClockTimes :
                           x[3] <= DaysInMonth(x[1], x[2])}}

----------------------------------------------------------------------------
(* The calculator applied once to every input: a new report is saved *)

InitCalc ==
  /\ now \in CalcInstants
  /\ doc \in CalcSchedules
  /\ stored = NewSchedule
  /\ outcome = "none"
  /\ saves = 0
  /\ MsgIdle
  /\ AppIdle

\* await report.save() of the new document
SaveNew == saves = 0 /\ Save(doc)

NextCalc == SaveNew

SpecCalc == InitCalc /\ [][NextCalc]_vars

----------------------------------------------------------------------------
(* The life of one report: it is created and then updated, while the clock *)
(* advances between the requests                                           *)

\* strings the HH:MM pattern rejects
BadTimes ==
  {<<"2", "4", ":", "0", "0">>, <<"0", "9", ":", "6", "0">>,
   <<"9", ":", "3", "0">>, <<"0", "9", "3", "0">>}

\* schedules the validators accept
GoodAttempts ==
  {Schedule(x[1], x[2], x[3], Time0930, "UTC", a) :
     <<x, a>> \in {<<"daily", Undefined, Undefined>>,
                   <<"weekly", 3, Undefined>>,
                   <<"monthly", Undefined, 31>>,
                   <<"custom", Undefined, Undefined>>} \X BOOLEAN}
  \cup {Schedule("", Undefined, Undefined, t, "UTC", TRUE) :
          t \in {<<>>, Time0930}}

\* schedules the validators reject
BadAttempts ==
  {Schedule(f, Undefined, Undefined, t, "UTC", a) :
     <<f, t, a>> \in {"daily", ""} \X BadTimes \X BOOLEAN}
  \cup {Schedule(x[1], x[2], x[3], x[4], "UTC", TRUE) :
          x \in {<<"weekly", Undefined, Undefined, Time0930>>,
                 <<"weekly", Undefined, 15, Time0930>>,
                 <<"monthly", Undefined, Undefined, Time0930>>,
                 <<"monthly", 3, Undefined, Time0930>>,
                 <<"daily", Undefined, Undefined, <<>> >>,
                 <<"hourly", Undefined, Undefined, Time0930>>,
                 <<"weekly", 7, Undefined, Time0930>>,
                 <<"monthly", Undefined, 32, Time0930>>}}

Attempts == GoodAttempts \cup BadAttempts

\* a Monday morning, the same day at and after 09:30, the last day of a
\* 31-day month and the last day of a leap February
HookInstants ==
  {Instant(2024, 0, 15, 8, 15, 20), Instant(2024, 0, 15, 9, 30, 0),
   Instant(2024, 0, 15, 17, 45, 10), Instant(2024, 0, 31, 17, 45, 10),
   Instant(2024, 1, 29, 8, 15, 20)}

Init ==
  /\ now \in HookInstants
  /\ doc = NewSchedule
  /\ stored = NewSchedule
  /\ outcome = "none"
  /\ saves = 0
  /\ MsgIdle
  /\ AppIdle

\* the caller sets the schedule fields on the document loaded from the
\* store (or on the new document) and calls save()
SaveReport ==
  \E a \in Attempts : Save([a EXCEPT !.nextRun = stored.nextRun])

\* time passes between two requests
Tick ==
  /\ \E t \in HookInstants : t > now /\ now' = t
  /\ UNCHANGED <<doc, stored, outcome, saves>>
  /\ UNCHANGED <<msgVars, appVars>>

Next == SaveReport \/ Tick

Spec == Init /\ [][Next]_vars

----------------------------------------------------------------------------
(* Messages: the document and the save hooks of messageSchema *)

\* a reference that is not set (parentMessage?, threadId?)
NoId == 0

\* the identifiers of the messages
MsgIds == 1..MaxMsgs

\* an identifier that matches no stored message
DanglingId == MaxMsgs + 1

\* one element of recipients
Recipient(u, r, d) == [user |-> u, read |-> r, deleted |-> d]

\* the fields of a message document the model follows
Message(sender, recipients, subject, body, parent, thread, isThread, isDraft) ==
  [sender |-> sender, recipients |-> recipients, subject |-> subject,
   body |-> body, parentMessage |-> parent, threadId |-> thread,
   isThread |-> isThread, isDraft |-> isDraft]

\* messageSchema.pre('save'): whether the hook issues findById for the parent
ReadsParent(d) == d.parentMessage # NoId /\ d.threadId = NoId

\* variant: threadId = parent._id, whatever the parent's threadId
ResolveThreadParentOnly(d, store) ==
  IF d.parentMessage # NoId /\ d.threadId = NoId
    THEN IF d.parentMessage \in DOMAIN store
           THEN [d EXCEPT !.threadId = d.parentMessage, !.isThread = FALSE]
           ELSE d
    ELSE d

\* variant: the hook also derives the subject from the parent's
ResolveThreadRetitle(d, store) ==
  IF d.parentMessage # NoId /\ d.threadId = NoId
    THEN IF d.parentMessage \in DOMAIN store
           THEN LET parent == store[d.parentMessage]
                IN [d EXCEPT !.threadId = IF parent.threadId # NoId
                                            THEN parent.threadId
                                            ELSE d.parentMessage,
                             !.isThread = FALSE,
                             !.subject = "Re: " \o parent.subject]
           ELSE d
    ELSE d

\* messageSchema.pre('save'): the document after the hook, given the
\* collection that findById(this.parentMessage) reads
ResolveThread(d, store) ==
  IF d.parentMessage # NoId /\ d.threadId = NoId
    THEN IF d.parentMessage \in DOMAIN store
           THEN LET parent == store[d.parentMessage]
                IN [d EXCEPT !.threadId = IF parent.threadId # NoId
                                            THEN parent.threadId
                                            ELSE d.parentMessage,
                             !.isThread = FALSE]
           ELSE d
    ELSE d

\* variant: only a parent that already carries a threadId is flagged
MarkThreadThreaded(store, p) ==
  IF p \in DOMAIN store /\ store[p].threadId # NoId
    THEN [store EXCEPT ![p].isThread = TRUE]
    ELSE store

\* variant: the flag is flipped instead of set
MarkThreadToggle(store, p) ==
  IF p \in DOMAIN store
    THEN [store EXCEPT ![p].isThread = ~store[p].isThread]
    ELSE store

\* updateOne({ _id: p }, { $set: { isThread: true } })
MarkThread(store, p) ==
  IF p \in DOMAIN store
    THEN [store EXCEPT ![p].isThread = TRUE]
    ELSE store

\* variant: the post-save hook flags the thread (threadId), not the parent
PostTargetThread(d) == d.threadId

\* the message the post-save hook flags: { _id: doc.parentMessage }
PostTarget(d) == d.parentMessage

\* variant: the parent is flagged first, and only a message without a
\* parentMessage becomes its own thread
PostBranchParentFirst(d) ==
  IF d.parentMessage # NoId THEN "parent"
  ELSE IF d.isThread /\ d.threadId = NoId THEN "self"
  ELSE "none"

\* variant: a thread message is saved again whether or not it already has
\* a threadId
PostBranchAlwaysSelf(d) ==
  IF d.isThread THEN "self"
  ELSE IF d.parentMessage # NoId THEN "parent"
  ELSE "none"

\* messageSchema.post('save'): which branch the hook takes
PostBranch(d) ==
  IF d.isThread /\ d.threadId = NoId THEN "self"
  ELSE IF d.parentMessage # NoId THEN "parent"
  ELSE "none"

\* the write of save(): a new document is inserted; for a stored document
\* the paths that differ from the loaded copy are $set
Persist(store, id, isNew, orig, d) ==
  IF isNew THEN (id :> d) @@ store
  ELSE IF id \in DOMAIN store
    THEN [store EXCEPT ![id] =
            [f \in DOMAIN d |-> IF d[f] # orig[f] THEN d[f] ELSE store[id][f]]]
    ELSE store

\* a save() call in flight: the document in memory, the copy it was loaded
\* as, the document as handed to save(), the step that comes next, the
\* database operations its hooks have issued and the saves its post-save
\* hook has started
Task(pc, id, isNew, d, orig, given) ==
  [pc |-> pc, id |-> id, isNew |-> isNew, doc |-> d, orig |-> orig,
   given |-> given, ops |-> 0, resaves |-> 0]

----------------------------------------------------------------------------
(* Message saves through the model hooks.  A save() is a sequence of       *)
(* steps, each one database round trip, and the steps of the saves in      *)
(* flight interleave: pre-save hook, write, post-save hook                 *)

\* the report stays as it is while messages are handled
ReportIdle ==
  /\ now = Instant(2024, 0, 15, 8, 15, 20)
  /\ doc = NewSchedule
  /\ stored = NewSchedule
  /\ outcome = "none"
  /\ saves = 0

InitHooks == ReportIdle /\ MsgIdle /\ AppIdle

Slots == 1..MaxTasks

\* the slot a new save() takes: the first idle one
FreeSlot(s) ==
  tasks[s] = IdleTask /\ \A r \in 1..(s - 1) : tasks[r] # IdleTask

\* new Message({...}).save(): threadId is left to the hooks
StartCreate(s) ==
  /\ FreeSlot(s)
  /\ nextId <= MaxMsgs
  /\ \E parent \in {NoId, DanglingId} \cup DOMAIN msgs, it \in BOOLEAN :
       LET d == Message("u1", <<Recipient("u2", FALSE, FALSE)>>, "subject",
                        "body", parent, NoId, it, FALSE)
       IN tasks' = [tasks EXCEPT ![s] = Task("pre", nextId, TRUE, d, d, d)]
  /\ nextId' = nextId + 1
  /\ UNCHANGED <<msgs, created, req, resp, session>>
  /\ UNCHANGED <<reportVars, appVars>>

\* a stored message is loaded and saved again; such a save starts while no
\* other save is in flight, and later saves may overlap it
StartResave(s) ==
  /\ FreeSlot(s)
  /\ \A r \in Slots : tasks[r] = IdleTask
  /\ \E id \in DOMAIN msgs :
       tasks' = [tasks EXCEPT ![s] =
                   Task("pre", id, FALSE, msgs[id], msgs[id], msgs[id])]
  /\ UNCHANGED <<msgs, nextId, created, req, resp, session>>
  /\ UNCHANGED <<reportVars, appVars>>

\* the pre-save hook, with its read of the parent
PreStep(s) ==
  /\ tasks[s].pc = "pre"
  /\ tasks' = [tasks EXCEPT ![s].doc = ResolveThread(tasks[s].doc, msgs),
                            ![s].ops = @ + IF ReadsParent(tasks[s].doc)
                                             THEN 1 ELSE 0,
                            ![s].pc = "persist"]
  /\ UNCHANGED <<msgs, nextId, created, req, resp, session>>
  /\ UNCHANGED <<reportVars, appVars>>

\* the document is written
PersistStep(s) ==
  /\ tasks[s].pc = "persist"
  /\ LET t == tasks[s]
     IN /\ msgs' = Persist(msgs, t.id, t.isNew, t.orig, t.doc)
        /\ created' = IF t.isNew THEN (t.id :> t.given) @@ created
                                 ELSE created
        /\ tasks' = [tasks EXCEPT ![s].pc = "post", ![s].isNew = FALSE,
                                  ![s].orig = t.doc]
  /\ UNCHANGED <<nextId, req, resp, session>>
  /\ UNCHANGED <<reportVars, appVars>>

\* the post-save hook: the document becomes its own thread and is saved
\* again, or its parent is flagged, or nothing is done
PostStep(s) ==
  /\ tasks[s].pc = "post"
  /\ LET t == tasks[s]
     IN CASE PostBranch(t.doc) = "self" ->
               /\ tasks' = [tasks EXCEPT ![s].doc.threadId = t.id,
                                         ![s].ops = @ + 1,
                                         ![s].resaves = @ + 1,
                                         ![s].pc = "pre"]
               /\ msgs' = msgs
          [] PostBranch(t.doc) = "parent" ->
               /\ msgs' = MarkThread(msgs, PostTarget(t.doc))
               /\ tasks' = [tasks EXCEPT ![s] = IdleTask]
          [] OTHER ->
               /\ msgs' = msgs
               /\ tasks' = [tasks EXCEPT ![s] = IdleTask]
  /\ UNCHANGED <<nextId, created, req, resp, session>>
  /\ UNCHANGED <<reportVars, appVars>>

NextHooks ==
  \E s \in Slots :
    StartCreate(s) \/ StartResave(s) \/ PreStep(s) \/ PersistStep(s)
      \/ PostStep(s)

SpecHooks == InitHooks /\ [][NextHooks]_vars

----------------------------------------------------------------------------
(* The message request handlers.  A handler runs from request to response  *)
(* as one step; the saves it makes run their hooks to completion inside    *)
(* it.  req is the request just served and resp its status.                *)

Users == {"u1", "u2", "u3"}

\* the users who send messages
Senders == {"u1", "u2"}

\* the request bodies sent to sendMessage: a message without recipients, a
\* draft, and messages to one and to two users
SendBodies ==
  {[recipients |-> <<>>, isDraft |-> FALSE],
   [recipients |-> <<>>, isDraft |-> TRUE],
   [recipients |-> <<"u2">>, isDraft |-> FALSE],
   [recipients |-> <<"u2", "u3">>, isDraft |-> FALSE]}

\* the recipient list a request puts in place of a stored one
Replacement == <<"u3">>

\* new mongoose.Types.ObjectId(): an identifier that names no message
FreshThread == MaxMsgs + 1 + nextId

\* the recipient entries built from a list of user identifiers
Entries(rs) == [i \in DOMAIN rs |-> Recipient(rs[i], FALSE, FALSE)]

IsRecipient(m, u) == \E i \in DOMAIN m.recipients : m.recipients[i].user = u

\* recipients.findIndex(r => r.user.toString() === userId)
RecipientIndex(m, u) ==
  CHOOSE i \in DOMAIN m.recipients :
    /\ m.recipients[i].user = u
    /\ \A j \in 1..(i - 1) : m.recipients[j].user # u

\* the filter {$or: [{sender: u}, {'recipients.user': u,
\* 'recipients.deleted': false}]}: each array condition is met by some
\* element, not necessarily the same one
CanRead(m, u) ==
  \/ m.sender = u
  \/ /\ IsRecipient(m, u)
     /\ \E i \in DOMAIN m.recipients : ~m.recipients[i].deleted

\* recipients.map(r => ({...r, deleted: true})) with the fields kept
MarkAllDeleted(m) ==
  [m EXCEPT !.recipients =
     [i \in DOMAIN m.recipients |-> [m.recipients[i] EXCEPT !.deleted = TRUE]]]

\* what spreading a stored recipient entry yields: its fields, or the
\* document's internals without them, which the save then rejects
SpreadOutcomes == {"fields", "internals"}

\* findByIdAndDelete / deleteOne
Remove(store, id) == [k \in DOMAIN store \ {id} |-> store[k]]

\* save() with its hooks run to completion: pre-save hook, write, post-save
\* hook and, when the hook saves again, the hooks of that save
SaveDoc(store, id, isNew, d) ==
  LET d1 == ResolveThread(d, store)
      s1 == Persist(store, id, isNew, IF isNew THEN d ELSE store[id], d1)
      d2 == [d1 EXCEPT !.threadId = id]
      s2 == Persist(s1, id, FALSE, d1, d2)
  IN CASE PostBranch(d1) = "self" ->
            IF PostBranch(d2) = "parent" THEN MarkThread(s2, PostTarget(d2))
                                          ELSE s2
       [] PostBranch(d1) = "parent" -> MarkThread(s1, PostTarget(d1))
       [] OTHER -> s1

Request(op, user, id, hard) ==
  [op |-> op, user |-> user, id |-> id, hard |-> hard]

\* the calls a handler makes on its session, in order: none when it uses no
\* transaction, or startTransaction followed by what the path taken does
NoSession == <<>>
LeftOpen == <<"startTransaction">>
Committed == <<"startTransaction", "commitTransaction", "endSession">>
Aborted == <<"startTransaction", "abortTransaction", "endSession">>

InitMsg == ReportIdle /\ MsgIdle /\ AppIdle

\* sendMessage (controller)
sendMessage(u, body, parentMessageId) ==
  /\ req' = Request("send", u, parentMessageId, FALSE)
  /\ IF ~body.isDraft /\ body.recipients = <<>>
       THEN /\ resp' = 400
            /\ session' = LeftOpen
            /\ UNCHANGED <<msgs, nextId, created>>
     ELSE IF parentMessageId # NoId
               /\ ~(parentMessageId \in DOMAIN msgs
                      /\ CanRead(msgs[parentMessageId], u))
       THEN /\ resp' = 404
            /\ session' = Aborted
            /\ UNCHANGED <<msgs, nextId, created>>
     ELSE LET threadId ==
                IF parentMessageId = NoId THEN FreshThread
                ELSE IF msgs[parentMessageId].threadId # NoId
                  THEN msgs[parentMessageId].threadId
                  ELSE parentMessageId
              d == Message(u, IF body.isDraft THEN <<>>
                                              ELSE Entries(body.recipients),
                           "subject", "body", NoId, threadId, FALSE,
                           body.isDraft)
          IN /\ nextId <= MaxSent
             /\ msgs' = SaveDoc(msgs, nextId, TRUE, d)
             /\ created' = (nextId :> d) @@ created
             /\ nextId' = nextId + 1
             /\ resp' = 201
             /\ session' = Committed
  /\ UNCHANGED tasks
  /\ UNCHANGED <<reportVars, appVars>>

\* the fields updateMessage accepts
AllowedUpdates ==
  {"isStarred", "isPinned", "isRead", "deleted", "subject", "body",
   "recipients", "isDraft"}

\* the request bodies sent to updateMessage
UpdateBodies ==
  {[deleted |-> TRUE], [threadId |-> 1], [recipients |-> Entries(Replacement)]}

\* Object.assign(message, updatesToApply), on the fields of the schema
Assign(m, updates) ==
  [f \in DOMAIN m |-> IF f \in DOMAIN updates THEN updates[f] ELSE m[f]]

\* updateMessage (controller)
updateMessage(u, id, updates) ==
  LET updatesToApply ==
        [k \in DOMAIN updates \cap AllowedUpdates |-> updates[k]]
  IN /\ req' = Request("update", u, id, FALSE)
     /\ IF DOMAIN updatesToApply = {}
          THEN resp' = 400 /\ msgs' = msgs
        ELSE IF ~(id \in DOMAIN msgs
                    /\ (msgs[id].sender = u \/ IsRecipient(msgs[id], u)))
          THEN resp' = 404 /\ msgs' = msgs
        ELSE IF msgs[id].sender = u
          THEN /\ msgs' = SaveDoc(msgs, id, FALSE,
                                  Assign(msgs[id], updatesToApply))
               /\ resp' = 200
        ELSE LET i == RecipientIndex(msgs[id], u)
                 d == IF "deleted" \in DOMAIN updatesToApply
                        THEN [msgs[id] EXCEPT !.recipients[i].deleted =
                                                updatesToApply.deleted]
                        ELSE msgs[id]
             IN /\ msgs' = SaveDoc(msgs, id, FALSE, d)
                /\ resp' = 200
     /\ session' = NoSession
     /\ UNCHANGED <<nextId, created, tasks>>
     /\ UNCHANGED <<reportVars, appVars>>

\* the request bodies sent to PUT /:id
PutBodies ==
  {[isDraft |-> TRUE], [isDraft |-> TRUE, recipients |-> Replacement],
   [isDraft |-> FALSE, recipients |-> Replacement]}

\* router.put('/:id')
putMessage(u, id, body) ==
  /\ req' = Request("put", u, id, FALSE)
  /\ IF id \in DOMAIN msgs /\ CanRead(msgs[id], u)
       THEN /\ msgs' = IF body.isDraft /\ "recipients" \in DOMAIN body
                         THEN [msgs EXCEPT ![id].recipients =
                                             Entries(body.recipients)]
                         ELSE msgs
            /\ resp' = 200
       ELSE resp' = 404 /\ msgs' = msgs
  /\ session' = NoSession
  /\ UNCHANGED <<nextId, created, tasks>>
  /\ UNCHANGED <<reportVars, appVars>>

\* deleteMessage (controller)
deleteMessage(u, id, shouldHardDelete, spread) ==
  /\ req' = Request("delete", u, id, shouldHardDelete)
  /\ IF id \notin DOMAIN msgs
       THEN resp' = 404 /\ msgs' = msgs
     ELSE LET message == msgs[id]
              isSender == message.sender = u
          IN IF ~isSender /\ ~IsRecipient(message, u)
               THEN resp' = 403 /\ msgs' = msgs
             ELSE IF shouldHardDelete /\ isSender
               THEN resp' = 200 /\ msgs' = Remove(msgs, id)
             ELSE IF isSender
               THEN IF spread = "internals" /\ message.recipients # <<>>
                      THEN resp' = 500 /\ msgs' = msgs
                      ELSE LET marked == MarkAllDeleted(message)
                               saved == SaveDoc(msgs, id, FALSE, marked)
                               allRecipientsDeleted ==
                                 \A i \in DOMAIN marked.recipients :
                                   marked.recipients[i].deleted
                           IN /\ msgs' = IF allRecipientsDeleted
                                           THEN Remove(saved, id)
                                           ELSE SaveDoc(saved, id, FALSE,
                                                  MarkAllDeleted(marked))
                              /\ resp' = 200
             ELSE LET i == RecipientIndex(message, u)
                  IN /\ msgs' = SaveDoc(msgs, id, FALSE,
                                  [message EXCEPT !.recipients[i].deleted = TRUE])
                     /\ resp' = 200
  /\ session' = IF resp' = 200 THEN Committed ELSE Aborted
  /\ UNCHANGED <<nextId, created, tasks>>
  /\ UNCHANGED <<reportVars, appVars>>

\* router.delete('/:id')
deleteRoute(u, id) ==
  /\ req' = Request("routeDelete", u, id, FALSE)
  /\ IF id \notin DOMAIN msgs
       THEN resp' = 404 /\ msgs' = msgs
     ELSE IF msgs[id].sender = u
       THEN resp' = 200 /\ msgs' = Remove(msgs, id)
     ELSE /\ resp' = 200
          /\ msgs' = IF IsRecipient(msgs[id], u)
                       THEN [msgs EXCEPT
                               ![id].recipients[RecipientIndex(msgs[id], u)]
                                  .deleted = TRUE]
                       ELSE msgs
  /\ session' = NoSession
  /\ UNCHANGED <<nextId, created, tasks>>
  /\ UNCHANGED <<reportVars, appVars>>

\* router.post('/')
postMessage(u, body, parentMessageId) ==
  /\ req' = Request("post", u, parentMessageId, FALSE)
  /\ IF ~body.isDraft /\ body.recipients = <<>>
       THEN resp' = 400 /\ UNCHANGED <<msgs, nextId, created>>
       ELSE LET d == Message(u, Entries(body.recipients), "subject", "body",
                             NoId, parentMessageId, parentMessageId # NoId,
                             body.isDraft)
            IN /\ nextId <= MaxMsgs
               /\ msgs' = SaveDoc(msgs, nextId, TRUE, d)
               /\ created' = (nextId :> d) @@ created
               /\ nextId' = nextId + 1
               /\ resp' = 201
  /\ session' = NoSession
  /\ UNCHANGED tasks
  /\ UNCHANGED <<reportVars, appVars>>

NextMsg ==
  \/ \E u \in Senders, body \in SendBodies,
        parent \in {NoId, DanglingId} \cup DOMAIN msgs :
       sendMessage(u, body, parent)
  \/ \E u \in Users, id \in MsgIds :
       \/ \E updates \in UpdateBodies : updateMessage(u, id, updates)
       \/ \E body \in PutBodies : putMessage(u, id, body)
       \/ \E hard \in BOOLEAN, spread \in SpreadOutcomes :
            deleteMessage(u, id, hard, spread)
       \/ deleteRoute(u, id)

SpecMsg == InitMsg /\ [][NextMsg]_vars

\* the request bodies sent to POST /: a message without recipients and a
\* message to one user
PostBodies ==
  {[recipients |-> <<>>, isDraft |-> FALSE],
   [recipients |-> <<"u2">>, isDraft |-> FALSE]}

\* the handlers of the message routes alone: messages are created by POST /
NextRoutes ==
  \/ \E body \in PostBodies, parent \in {NoId, DanglingId} \cup DOMAIN msgs :
       postMessage("u1", body, parent)
  \/ \E u \in Users, id \in MsgIds :
       \/ \E body \in PutBodies : putMessage(u, id, body)
       \/ deleteRoute(u, id)

SpecRoutes == InitMsg /\ [][NextRoutes]_vars

----------------------------------------------------------------------------
(* Properties of the schedule calculator (checked under SpecCalc, where    *)
(* the clock does not move after the save)                                 *)

\* the hook has computed doc.nextRun at the instant now
Computed ==
  outcome = "saved" /\ doc.active /\ doc.frequency # "" /\ doc.time # <<>>

\* the configured hour and minute of a HH:MM string
ConfiguredHour == ToNumber(SubSeq(doc.time, 1, 2))

ConfiguredMinute == ToNumber(SubSeq(doc.time, 4, 5))

\* today's date at the configured time of day
TodayAtTime ==
  Day(now) * SecPerDay + ConfiguredHour * 3600 + ConfiguredMinute * 60

\* the result has the configured hour and minute and zero seconds
AtConfiguredTime ==
  /\ GetHours(doc.nextRun) = ConfiguredHour
  /\ GetMinutes(doc.nextRun) = ConfiguredMinute
  /\ GetSeconds(doc.nextRun) = 0

\* C1 as stated: for every frequency, custom included, the computed nextRun
\* is strictly greater than now
C1_AlwaysFuture == Computed => doc.nextRun > now

\* C1 amended: for the frequencies daily, weekly and monthly the computed
\* nextRun is strictly greater than now; for custom it is today's date at
\* the configured time, which is not after now once that time has passed
C1_PeriodicFuture ==
  Computed =>
    IF doc.frequency \in {"daily", "weekly", "monthly"}
      THEN doc.nextRun > now
      ELSE doc.nextRun = TodayAtTime

\* a periodic schedule computed at the very instant of its time of day
C1_Witness ==
  /\ Computed
  /\ doc.frequency = "monthly"
  /\ TodayAtTime = now
  /\ doc.nextRun > now

\* C2: for daily, nextRun is today's date at the configured time when that
\* is strictly after now and tomorrow's otherwise; it lies in
\* (now, now + 24h] and has the configured hour and minute, zero seconds
C2_Daily ==
  (Computed /\ doc.frequency = "daily") =>
    /\ doc.nextRun = IF TodayAtTime > now THEN TodayAtTime
                                          ELSE TodayAtTime + SecPerDay
    /\ now < doc.nextRun
    /\ doc.nextRun <= now + SecPerDay
    /\ AtConfiguredTime

\* a daily run moved to tomorrow, exactly 24h ahead, across a year's end
C2_Witness ==
  /\ Computed
  /\ doc.frequency = "daily"
  /\ doc.nextRun = now + SecPerDay
  /\ GetMonth(now) = 11
  /\ GetMonth(doc.nextRun) = 0

\* C3: for weekly, nextRun is the soonest instant strictly after now that
\* falls on dayOfWeek at the configured time, so never more than 7 days
\* after now
C3_WeeklySoonest ==
  (Computed /\ doc.frequency = "weekly") =>
    /\ doc.nextRun > now
    /\ GetDay(doc.nextRun) = doc.dayOfWeek
    /\ AtConfiguredTime
    /\ doc.nextRun - 7 * SecPerDay <= now
    /\ doc.nextRun <= now + 7 * SecPerDay

\* the month after the month of now, as <<year, month>>
MonthAfterNow ==
  IF GetMonth(now) = 11 THEN <<GetFullYear(now) + 1, 0>>
                        ELSE <<GetFullYear(now), GetMonth(now) + 1>>

\* C4: for monthly with dayOfMonth = 31, when the calculator advances into
\* a month of fewer than 31 days the result is the last day of that month
C4_ClampToLastDay ==
  (/\ Computed
   /\ doc.frequency = "monthly"
   /\ doc.dayOfMonth = 31
   /\ TodayAtTime <= now
   /\ DaysInMonth(MonthAfterNow[1], MonthAfterNow[2]) < 31) =>
    /\ GetFullYear(doc.nextRun) = MonthAfterNow[1]
    /\ GetMonth(doc.nextRun) = MonthAfterNow[2]
    /\ GetDate(doc.nextRun) = DaysInMonth(MonthAfterNow[1], MonthAfterNow[2])

\* C5: for monthly with dayOfMonth d, the result always falls on day
\* min(d, last day of the result's month)
C5_MonthlyDay ==
  (Computed /\ doc.frequency = "monthly") =>
    LET last == DaysInMonth(GetFullYear(doc.nextRun), GetMonth(doc.nextRun))
    IN GetDate(doc.nextRun) =
         IF doc.dayOfMonth < last THEN doc.dayOfMonth ELSE last

\* the candidate before the weekday adjustment: today's date at the
\* configured time, a week later when that is not after now
WeeklyCandidate ==
  IF TodayAtTime <= now THEN TodayAtTime + 7 * SecPerDay ELSE TodayAtTime

\* C6: for weekly with dayOfWeek defined, the weekday of nextRun equals
\* dayOfWeek and the weekday adjustment moves the candidate forward by a
\* whole number of days between 0 and 6
C6_WeekdayForward ==
  (Computed /\ doc.frequency = "weekly" /\ doc.dayOfWeek # Undefined) =>
    /\ GetDay(doc.nextRun) = doc.dayOfWeek
    /\ \E k \in 0..6 : doc.nextRun = WeeklyCandidate + k * SecPerDay

\* a weekly run whose candidate is moved forward by six days
C6_Witness ==
  /\ Computed
  /\ doc.frequency = "weekly"
  /\ GetDay(doc.nextRun) = doc.dayOfWeek
  /\ GetDay(WeeklyCandidate) = (doc.dayOfWeek + 1) % 7
  /\ doc.nextRun = WeeklyCandidate + 6 * SecPerDay

\* C8: for custom, nextRun is today's date at the configured hour and
\* minute whether or not that instant has passed
C8_CustomTimeOnly ==
  (Computed /\ doc.frequency = "custom") =>
    /\ doc.nextRun = TodayAtTime
    /\ AtConfiguredTime
    /\ GetFullYear(doc.nextRun) = GetFullYear(now)
    /\ GetMonth(doc.nextRun) = GetMonth(now)
    /\ GetDate(doc.nextRun) = GetDate(now)

\* a custom schedule whose computed run already lies in the past
C8_Witness ==
  /\ Computed
  /\ doc.frequency = "custom"
  /\ doc.nextRun < now

----------------------------------------------------------------------------
(* Properties of save(): the validators and the pre-save hook (checked     *)
(* under Spec)                                                             *)

\* the well-formed times of day 00:00 .. 23:59
HHMM ==
  {<<Digits[(h \div 10) + 1], Digits[(h % 10) + 1], ":",
     Digits[(m \div 10) + 1], Digits[(m % 10) + 1]>> :
     <<h, m>> \in (0..23) \X (0..59)}

\* C7: a save whose schedule.time is not of the form HH:MM, or whose
\* frequency is weekly without dayOfWeek or monthly without dayOfMonth, is
\* rejected, and no nextRun is computed or stored
C7_InvalidRejected ==
  [][(/\ saves' = saves + 1
      /\ \/ doc'.time # <<>> /\ doc'.time \notin HHMM
         \/ doc'.frequency = "weekly" /\ doc'.dayOfWeek = Undefined
         \/ doc'.frequency = "monthly" /\ doc'.dayOfMonth = Undefined) =>
       (/\ outcome' = "rejected"
        /\ stored' = stored
        /\ doc'.nextRun = stored.nextRun)]_vars

\* an active daily schedule with the time 24:00 was rejected and the
\* previously stored nextRun is still in place
C7_Witness ==
  /\ outcome = "rejected"
  /\ doc.active
  /\ doc.frequency = "daily"
  /\ doc.time = <<"2", "4", ":", "0", "0">>
  /\ stored.nextRun # Undefined
  /\ doc.nextRun = stored.nextRun

\* C10: an accepted save of an active schedule with frequency and time set
\* stores the calculator's result for the saved fields as nextRun; an
\* accepted save of an inactive schedule leaves nextRun as it was
C10_HookRecomputes ==
  [][(saves' = saves + 1 /\ outcome' = "saved") =>
       (/\ stored' = doc'
        /\ (doc'.active /\ doc'.frequency # "" /\ doc'.time # <<>>) =>
             stored'.nextRun =
               calculateNextRun(doc'.frequency, doc'.dayOfWeek,
                                doc'.dayOfMonth, doc'.time, doc'.timezone,
                                now)
        /\ ~doc'.active => stored'.nextRun = stored.nextRun)]_vars

\* a second save deactivated the schedule and the nextRun computed by the
\* first save is still stored
C10_Witness ==
  /\ saves = 2
  /\ outcome = "saved"
  /\ ~stored.active
  /\ stored.frequency # ""
  /\ stored.nextRun # Undefined

----------------------------------------------------------------------------
\* Properties of the message save hooks

AllIdle == \A s \in Slots : tasks[s] = IdleTask

\* the message at the top of a stored message's parent chain
RECURSIVE RootOf(_, _)
RootOf(store, id) ==
  IF store[id].parentMessage \in DOMAIN store
    THEN RootOf(store, store[id].parentMessage)
    ELSE id

\* C11: every stored message that was first saved with parentMessage naming
\* a stored message and with threadId unset carries the identifier of the
\* root of its parent chain as threadId, whatever the reply depth
C11_ThreadIdIsRoot ==
  \A id \in DOMAIN msgs :
    (created[id].parentMessage \in DOMAIN msgs /\ created[id].threadId = NoId)
      => msgs[id].threadId = RootOf(msgs, id)

\* root A, reply B to A and reply C to B are stored, and B and C both carry
\* A's identifier
C11_Witness ==
  \E a, b, c \in DOMAIN msgs :
    /\ msgs[a].parentMessage = NoId
    /\ msgs[b].parentMessage = a
    /\ msgs[c].parentMessage = b
    /\ created[c].threadId = NoId
    /\ msgs[b].threadId = a
    /\ msgs[c].threadId = a
    /\ AllIdle

\* the stored messages without a parentMessage
Roots == {id \in DOMAIN msgs : msgs[id].parentMessage = NoId}

\* the stored messages whose parentMessage is r
RepliesTo(r) == {id \in DOMAIN msgs : msgs[id].parentMessage = r}

\* no save of message id is in progress
Settled(id) == \A s \in Slots : tasks[s] = IdleTask \/ tasks[s].id # id

\* the flag of each of the roots is false while it has no stored reply and
\* true once the save of a reply has completed
FlagFollowsReplies(roots) ==
  \A r \in roots :
    /\ msgs[r].isThread => RepliesTo(r) # {}
    /\ (\E m \in RepliesTo(r) : Settled(m)) => msgs[r].isThread

\* a flag that is true is true after the step
FlagStays ==
  \A id \in DOMAIN msgs : msgs[id].isThread => msgs'[id].isThread

\* C12 as stated: the isThread flag of every thread root is false while no
\* reply to it has been saved, true once the save of its first reply has
\* completed, and true ever after
C12_FlagExactlyOnFirstReply ==
  [](FlagFollowsReplies(Roots)) /\ [][FlagStays]_vars

\* C12, amended: the same for every thread root that was first saved with
\* isThread false
C12_FlagOnFirstReply ==
  [](FlagFollowsReplies({r \in Roots : ~created[r].isThread}))
    /\ [][FlagStays]_vars

\* a root first saved with the flag false has been flagged by the completed
\* save of a reply
C12_Witness ==
  \E r \in Roots :
    /\ ~created[r].isThread
    /\ msgs[r].isThread
    /\ \E m \in RepliesTo(r) : Settled(m)

\* C13: isThread is true only on a stored message that has no parentMessage
\* and has at least one reply; no reply has isThread true
C13_FlagOnlyOnRepliedRoots ==
  \A id \in DOMAIN msgs :
    msgs[id].isThread => (msgs[id].parentMessage = NoId /\ RepliesTo(id) # {})

\* a reply that was saved with an existing parent and the flag false is
\* flagged once it is replied to
C13_RepliedReplyFlagged ==
  \E b \in DOMAIN msgs :
    /\ msgs[b].parentMessage \in DOMAIN msgs
    /\ ~created[b].isThread
    /\ msgs[b].isThread
    /\ RepliesTo(b) # {}

\* a save of a message with parentMessage p is in progress
ReplyInFlight(p) ==
  \E s \in Slots : tasks[s] # IdleTask /\ tasks[s].doc.parentMessage = p

\* C15: the stored replies to one parent all carry the identifier of the
\* thread's root as threadId, whatever the order of the steps of their saves,
\* and once every save of a reply to that parent has completed the parent's
\* isThread is true
C15_ConcurrentRepliesAgree ==
  \A p \in DOMAIN msgs :
    /\ \A m \in RepliesTo(p) : msgs[m].threadId = RootOf(msgs, p)
    /\ (RepliesTo(p) # {} /\ ~ReplyInFlight(p)) => msgs[p].isThread

\* two saves of new replies to the same parent have both written their
\* document and neither has run its post-save hook yet
C15_Witness ==
  \E p \in DOMAIN msgs :
    /\ ~msgs[p].isThread
    /\ \E s, r \in Slots :
         /\ s # r
         /\ \A q \in {s, r} :
              /\ tasks[q] # IdleTask
              /\ tasks[q].pc = "post"
              /\ tasks[q].doc.parentMessage = p
              /\ tasks[q].id \in RepliesTo(p)
              /\ msgs[tasks[q].id].threadId = RootOf(msgs, p)
         /\ tasks[s].id # tasks[r].id

\* the save in slot s returns in this step
Completes(s) == tasks[s] # IdleTask /\ tasks'[s] = IdleTask

\* the document handed to save() in slot s had isThread true and no threadId
SavedAsOpenThread(s) ==
  tasks[s] # IdleTask /\ tasks[s].given.isThread
    /\ tasks[s].given.threadId = NoId

\* the document of slot s and its stored copy carry its own identifier
OwnThread(s) ==
  /\ tasks[s].doc.threadId = tasks[s].id
  /\ tasks[s].id \in DOMAIN msgs'
  /\ msgs'[tasks[s].id].threadId = tasks[s].id

\* C16 as stated: a save of a message whose isThread is true and whose
\* threadId is unset returns with the message's threadId equal to its own
\* identifier, in the document and in the store
C16_OwnThreadAlways ==
  [][\A s \in Slots : (Completes(s) /\ SavedAsOpenThread(s)) => OwnThread(s)]_vars

\* C16, amended: the same for a message whose parentMessage is unset or
\* names no stored message
C16_OwnThreadUnlessReply ==
  [][\A s \in Slots :
       (Completes(s) /\ SavedAsOpenThread(s)
          /\ tasks[s].given.parentMessage \notin DOMAIN msgs)
         => OwnThread(s)]_vars

\* a message created with isThread true and no threadId is stored with its
\* own identifier as threadId and its save has returned
C16_Witness ==
  \E id \in DOMAIN msgs :
    /\ created[id].isThread
    /\ created[id].threadId = NoId
    /\ created[id].parentMessage \notin DOMAIN msgs
    /\ msgs[id].threadId = id
    /\ Settled(id)

\* the parent update applied to the store once and applied again give the
\* same store, in which p is flagged and nothing else differs from before
MarkOnceOrTwice(p) ==
  LET once == MarkThread(msgs, p)
      twice == MarkThread(once, p)
  IN /\ twice = once
     /\ DOMAIN once = DOMAIN msgs
     /\ \A q \in DOMAIN msgs :
          IF q = p
            THEN /\ once[q].isThread
                 /\ \A f \in DOMAIN msgs[q] \ {"isThread"} :
                      once[q][f] = msgs[q][f]
            ELSE once[q] = msgs[q]

\* a post-save hook that flags a parent already flagged changes no message
RemarkChangesNothing ==
  \A s \in Slots :
    (/\ tasks[s] # IdleTask
     /\ tasks[s].pc = "post"
     /\ PostBranch(tasks[s].doc) = "parent"
     /\ PostTarget(tasks[s].doc) \in DOMAIN msgs
     /\ msgs[PostTarget(tasks[s].doc)].isThread
     /\ Completes(s)) => msgs' = msgs

\* C17: in every reachable store and for every parent identifier, the parent
\* update applied once or repeatedly yields the same store, with the parent's
\* isThread true and its other fields unchanged
C17_MarkIdempotent ==
  [](\A p \in MsgIds \cup {DanglingId} : MarkOnceOrTwice(p))
    /\ [][RemarkChangesNothing]_vars

\* the update has been applied to one parent by the saves of two replies
C17_Witness ==
  \E p \in DOMAIN msgs :
    /\ msgs[p].isThread
    /\ \E m, n \in RepliesTo(p) : m # n /\ Settled(m) /\ Settled(n)
    /\ ~ReplyInFlight(p)

\* the fields of a message that the thread bookkeeping does not own
FrameFields ==
  {"sender", "recipients", "subject", "body", "parentMessage", "isDraft"}

Frame(m) == [f \in FrameFields |-> m[f]]

\* the slots whose save may touch message id in a step: the message is the
\* one being saved or the parent of the one being saved
Touching(id) ==
  {s \in Slots : tasks[s] # IdleTask
                   /\ (tasks[s].id = id \/ tasks[s].doc.parentMessage = id)}

\* one step of a save keeps the frame fields of the document being saved and
\* of every stored message, stores a new message with the frame fields it was
\* given, and changes no stored message other than the saved one and its
\* immediate parent
HooksKeepFrame ==
  /\ \A s \in Slots :
       (tasks[s] # IdleTask /\ tasks'[s] # IdleTask)
         => Frame(tasks'[s].doc) = Frame(tasks[s].doc)
  /\ \A id \in DOMAIN msgs :
       /\ id \in DOMAIN msgs'
       /\ Frame(msgs'[id]) = Frame(msgs[id])
       /\ msgs'[id] # msgs[id] => Touching(id) # {}
  /\ \A id \in DOMAIN msgs' \ DOMAIN msgs :
       Frame(msgs'[id]) = Frame(created'[id])

\* C18: the pre-save and post-save hooks change only threadId and isThread;
\* sender, recipients, subject, body, parentMessage and isDraft of the saved
\* message and of its parent stay as they were, and no other message changes
C18_HooksFrame == [][HooksKeepFrame]_vars

\* a reply whose threadId the pre-save hook has set and a parent whose flag
\* the post-save hook has set are stored beside a third message that is as
\* it was given
C18_Witness ==
  \E p, m, q \in DOMAIN msgs :
    /\ msgs[m].parentMessage = p
    /\ created[m].threadId = NoId /\ msgs[m].threadId = p
    /\ ~created[p].isThread /\ msgs[p].isThread
    /\ Frame(msgs[m]) = Frame(created[m])
    /\ Frame(msgs[p]) = Frame(created[p])
    /\ q \notin {p, m}
    /\ msgs[q] = created[q]
    /\ AllIdle

----------------------------------------------------------------------------
\* Properties of the message request handlers

\* the request served in this step is a send that names a parent no stored
\* message has, and its body passed the handler's validation
SendsToMissingParent ==
  /\ req'.op = "send"
  /\ req'.id # NoId /\ req'.id \notin DOMAIN msgs
  /\ resp' # 400

\* the step stores one new message, standalone and without a threadId, and
\* changes no other
StoresStandalone ==
  /\ DOMAIN msgs' = DOMAIN msgs \cup {nextId}
  /\ nextId \notin DOMAIN msgs
  /\ msgs'[nextId].threadId = NoId
  /\ \A id \in DOMAIN msgs : msgs'[id] = msgs[id]

\* C14: sending a message whose parent identifier matches no stored message
\* succeeds: the message is stored as a standalone message with threadId
\* unset, no error is returned and no other message is modified
C14_MissingParentStandalone ==
  [][SendsToMissingParent => (resp' = 201 /\ StoresStandalone)]_vars

\* a send naming a missing parent has been answered with 404 and has stored
\* nothing
C14_Rejected ==
  /\ req.op = "send"
  /\ req.id # NoId /\ req.id \notin DOMAIN msgs
  /\ resp = 404
  /\ msgs = <<>>

\* the request served in this step is a delete of stored message id by its
\* sender without hardDelete=true
SenderSoftDeletes(id) ==
  /\ req'.op \in {"delete", "routeDelete"}
  /\ req'.id = id
  /\ req'.user = msgs[id].sender
  /\ ~req'.hard

AllMarkedDeleted(m) == \A i \in DOMAIN m.recipients : m.recipients[i].deleted

\* C19: a delete by the sender without hardDelete=true removes the message
\* from the store only when every recipient entry was marked deleted before
\* the request; otherwise the message is still stored afterwards
C19_HardDeleteOnlyWhenAllDeleted ==
  [][\A id \in DOMAIN msgs :
       (SenderSoftDeletes(id) /\ id \notin DOMAIN msgs')
         => AllMarkedDeleted(msgs[id])]_vars

\* the controller's delete without hardDelete=true has removed a message
\* that had a recipient entry not marked deleted
C19_RemovedByController ==
  /\ req.op = "delete" /\ ~req.hard /\ resp = 200
  /\ req.id \in DOMAIN created /\ req.id \notin DOMAIN msgs
  /\ req.user = created[req.id].sender
  /\ created[req.id].recipients # <<>>
  /\ \A id \in DOMAIN created : id = req.id

\* the route's delete has removed a message that had a recipient entry not
\* marked deleted
C19_RemovedByRoute ==
  /\ req.op = "routeDelete" /\ resp = 200
  /\ req.id \in DOMAIN created /\ req.id \notin DOMAIN msgs
  /\ req.user = created[req.id].sender
  /\ created[req.id].recipients # <<>>
  /\ \A id \in DOMAIN created : id = req.id

\* the recipient entries of message id differ across the step only in
\* entries of user u
OnlyEntriesOf(id, u) ==
  /\ DOMAIN msgs'[id].recipients = DOMAIN msgs[id].recipients
  /\ \A i \in DOMAIN msgs[id].recipients :
       msgs'[id].recipients[i] # msgs[id].recipients[i]
         => (msgs[id].recipients[i].user = u
               /\ msgs'[id].recipients[i].user = u)

\* the step is a delete by the sender of message id that marks all its
\* entries deleted
SenderBulkDelete(id) ==
  /\ req'.op \in {"delete", "routeDelete"}
  /\ req'.user = msgs[id].sender
  /\ msgs'[id].recipients = MarkAllDeleted(msgs[id]).recipients

\* C20: the recipient entries of a stored message change only in the entries
\* of the user who makes the request, or all together by a delete of the
\* sender that marks them deleted; no request of another recipient and no
\* update of the sender alters or replaces another user's entry
C20_EntryOwnership ==
  [][\A id \in DOMAIN msgs \cap DOMAIN msgs' :
       msgs'[id].recipients # msgs[id].recipients
         => (OnlyEntriesOf(id, req'.user) \/ SenderBulkDelete(id))]_vars

\* a PUT of a recipient has put a new recipient list in place of the
\* entries of a message sent to two users
C20_ReplacedByRecipient ==
  /\ req.op = "put" /\ resp = 200
  /\ req.id \in DOMAIN msgs
  /\ req.user # msgs[req.id].sender
  /\ Len(created[req.id].recipients) = 2
  /\ msgs[req.id].recipients = Entries(Replacement)

\* an update of the sender has put a new recipient list in place of the
\* entries of a message sent to two users
C20_ReplacedBySender ==
  /\ req.op = "update" /\ resp = 200
  /\ req.id \in DOMAIN msgs
  /\ req.user = msgs[req.id].sender
  /\ Len(created[req.id].recipients) = 2
  /\ msgs[req.id].recipients = Entries(Replacement)

----------------------------------------------------------------------------
\* Properties of the message routes

\* the identifier of the thread a stored message belongs to: its threadId,
\* or its own identifier when it has none and so is a root
ThreadOf(id) == IF msgs[id].threadId # NoId THEN msgs[id].threadId ELSE id

\* C21: a reply created through POST / with parentMessageId p is stored with
\* threadId equal to the identifier of the root of p's thread, also when p
\* is itself a reply (checked where that root is a stored message)
C21_RouteReplyJoinsRoot ==
  [][(/\ req'.op = "post" /\ resp' = 201
      /\ req'.id \in DOMAIN msgs
      /\ ThreadOf(req'.id) \in DOMAIN msgs)
       => msgs'[nextId].threadId = ThreadOf(req'.id)]_vars

\* root a, reply b to a and reply c to b were posted, and c carries b's
\* identifier, not a's
C21_ReplyToReplyKeepsParent ==
  \E a, b, c \in DOMAIN msgs :
    /\ msgs[a].threadId = NoId
    /\ msgs[b].threadId = a
    /\ msgs[c].threadId = b
    /\ req.op = "post" /\ req.id = b /\ resp = 201

----------------------------------------------------------------------------
\* Further properties of the message request handlers

\* C22: every request served by the send and delete handlers has its
\* transaction closed: startTransaction is followed by exactly one of
\* commitTransaction and abortTransaction and by endSession, on the
\* validation-failure responses too
C22_TransactionClosed ==
  [][req'.op \in {"send", "delete"} => session' \in {Committed, Aborted}]_vars

\* a send without recipients has been answered with 400 while its
\* transaction was started and neither committed, aborted nor ended
C22_OpenAfterValidationFailure ==
  req.op = "send" /\ resp = 400 /\ session = LeftOpen

\* C28: every stored message whose threadId is set has a threadId that names
\* a stored message
C28_ThreadIdNamesStored ==
  \A id \in DOMAIN msgs :
    msgs[id].threadId # NoId => msgs[id].threadId \in DOMAIN msgs

\* a message sent without a parent carries a threadId that no message ever
\* had as identifier
C28_FreshThreadId ==
  \E id \in DOMAIN msgs :
    /\ msgs[id].threadId # NoId
    /\ msgs[id].threadId \notin DOMAIN created
    /\ req.op = "send" /\ req.id = NoId /\ resp = 201

\* a stored reply carries the identifier of its thread's root, which has
\* been deleted
C28_RootDeleted ==
  \E id \in DOMAIN msgs :
    /\ msgs[id].threadId \in DOMAIN created
    /\ msgs[id].threadId \notin DOMAIN msgs
    /\ req.op \in {"delete", "routeDelete"} /\ req.id = msgs[id].threadId

\* C30: after a reply is sent successfully through sendMessage with
\* parentMessageId p, the stored reply has parentMessage p and message p has
\* isThread true
C30_ReplyRecordsParent ==
  [][(req'.op = "send" /\ resp' = 201 /\ req'.id # NoId)
       => (/\ msgs'[nextId].parentMessage = req'.id
           /\ req'.id \in DOMAIN msgs'
           /\ msgs'[req'.id].isThread)]_vars

\* a reply has been sent successfully, is stored without a parentMessage,
\* and its parent's isThread is false
C30_ReplyWithoutParent ==
  /\ req.op = "send" /\ resp = 201 /\ req.id \in DOMAIN msgs
  /\ \E id \in DOMAIN msgs :
       /\ id # req.id
       /\ msgs[id].threadId = ThreadOf(req.id)
       /\ msgs[id].parentMessage = NoId
  /\ ~msgs[req.id].isThread

\* ---------------------------------------------------------------------
\* C23, C29: cost and termination of the thread resolver

\* the database operations one save() has issued once the step just taken
\* is over: the count kept in the task, plus the parent update of the
\* step that completes it
OpsAfter(s) ==
  IF tasks'[s] # IdleTask THEN tasks'[s].ops
  ELSE tasks[s].ops + IF tasks[s].pc = "post" /\ PostBranch(tasks[s].doc) = "parent" THEN 1 ELSE 0

\* C23: the hooks of one save() issue at most two database operations,
\* a read of the parent and one write, for every combination of parent
\* set or unset, found or missing, isThread and threadId
C23_AtMostTwoOperations ==
  [][\A s \in Slots : tasks[s] # IdleTask => OpsAfter(s) <= 2]_vars

\* a save that has read a missing parent and written itself is about to
\* update that parent as well
C23_ThirdOperation ==
  \E s \in Slots :
    /\ tasks[s].pc = "post"
    /\ tasks[s].ops = 2
    /\ tasks[s].doc.parentMessage = DanglingId
    /\ PostBranch(tasks[s].doc) = "parent"

\* C29: every save of a message ends: its post-save hook starts at most
\* one further save, and after that save the hook finds threadId set and
\* starts none
C29_AtMostOneResave ==
  \A s \in Slots :
    tasks[s] # IdleTask =>
      /\ tasks[s].resaves <= 1
      /\ (tasks[s].resaves = 1 /\ tasks[s].pc = "post" => PostBranch(tasks[s].doc) # "self")

\* the nested save has been stored and its post-save hook is about to run
C29_Witness ==
  \E s \in Slots :
    /\ tasks[s].pc = "post"
    /\ tasks[s].resaves = 1
    /\ tasks[s].doc.threadId = tasks[s].id

----------------------------------------------------------------------------
(* Reports, departments and report templates *)

\* users that call the handlers; u1 has the role admin
Actors == {"u1", "u2"}

\* req.user.role
Role(u) == IF u = "u1" THEN "admin" ELSE "user"

\* Array.prototype.includes
Includes(list, x) == \E i \in DOMAIN list : list[i] = x

\* Array.prototype.filter(member => member !== x)
Without(list, x) == SelectSeq(list, LAMBDA m : m # x)

\* createReport: a request without title, description or type is refused,
\* any other is stored under a fresh id inside a transaction
createReport(valid) ==
  /\ IF ~valid
       THEN /\ reports' = reports
            /\ session' = Aborted
            /\ reply' = Reply("createReport", 0, 400)
       ELSE LET id == Cardinality(reports) + 1
            IN /\ id <= MaxReports
               /\ reports' = reports \cup {id}
               /\ session' = Committed
               /\ reply' = Reply("createReport", id, 201)
  /\ UNCHANGED <<dept, tmpl, event, regs>>
  /\ UNCHANGED <<msgs, nextId, tasks, req, resp, created>>
  /\ UNCHANGED reportVars

\* deleteReport: looks the report up, answers 404 when there is none, and
\* otherwise commits the transaction and answers success; no statement of
\* the handler removes the report
deleteReport(id) ==
  /\ reports' = reports
  /\ session' = IF id \in reports THEN Committed ELSE Aborted
  /\ reply' = Reply("deleteReport", id, IF id \in reports THEN 200 ELSE 404)
  /\ UNCHANGED <<dept, tmpl, event, regs>>
  /\ UNCHANGED <<msgs, nextId, tasks, req, resp, created>>
  /\ UNCHANGED reportVars

\* a stored department
Department(head, members) == [exists |-> TRUE, head |-> head, members |-> members]

\* departmentSchema.methods.isDepartmentHead
isDepartmentHead(d, u) == d.head = u

\* whether the caller may change the department: an admin or its head
MayManage(d, u) == Role(u) = "admin" \/ isDepartmentHead(d, u)

\* departmentSchema.pre('save'): a new department, or one whose head was
\* modified, gets its head appended to members unless already there
autoPopulateHead(d, headModified, isNew) ==
  IF (headModified \/ isNew) /\ ~Includes(d.members, d.head)
    THEN [d EXCEPT !.members = Append(@, d.head)]
    ELSE d

\* bodies of POST /api/departments: the head and the members given
DepartmentBodies == {[head |-> h, members |-> m] : h \in {"u2", "u3"}, m \in {<<>>, <<"u3">>}}

\* bodies of PATCH /api/departments/:id: any subset of the fields
DepartmentUpdates == {[head |-> "u2"], [head |-> "u3"], [members |-> <<>>], [name |-> "n"]}

\* userId of a member request; "" stands for a body without userId
MemberIds == {"", "u2", "u3"}

\* what a department request leaves alone
appRest == <<reports, tmpl, event, regs>>

\* createDepartment: admins only; Department.create runs the save hooks
createDepartment(u, body) ==
  /\ IF Role(u) # "admin"
       THEN dept' = dept /\ reply' = Reply("createDepartment", 0, 403)
       ELSE /\ dept = Absent
            /\ dept' = autoPopulateHead(Department(body.head, body.members), TRUE, TRUE)
            /\ reply' = Reply("createDepartment", 0, 201)
  /\ UNCHANGED appRest /\ UNCHANGED <<reportVars, msgVars>>

\* findByIdAndUpdate(id, req.body): the fields of the body are $set in the
\* store; no document is saved, so no save hook runs
ApplyUpdate(d, body) ==
  [d EXCEPT !.head = IF "head" \in DOMAIN body THEN body.head ELSE @,
            !.members = IF "members" \in DOMAIN body THEN body.members ELSE @]

\* updateDepartment
updateDepartment(u, body) ==
  /\ IF dept = Absent
       THEN dept' = dept /\ reply' = Reply("updateDepartment", 0, 404)
       ELSE IF ~MayManage(dept, u)
         THEN dept' = dept /\ reply' = Reply("updateDepartment", 0, 403)
         ELSE dept' = ApplyUpdate(dept, body) /\ reply' = Reply("updateDepartment", 0, 200)
  /\ UNCHANGED appRest /\ UNCHANGED <<reportVars, msgVars>>

\* deleteDepartment: admins only
deleteDepartment(u) ==
  /\ IF Role(u) # "admin"
       THEN dept' = dept /\ reply' = Reply("deleteDepartment", 0, 403)
       ELSE IF dept = Absent
         THEN dept' = dept /\ reply' = Reply("deleteDepartment", 0, 404)
         ELSE dept' = Absent /\ reply' = Reply("deleteDepartment", 0, 204)
  /\ UNCHANGED appRest /\ UNCHANGED <<reportVars, msgVars>>

\* addDepartmentMember: pushes userId and saves the department
addDepartmentMember(u, userId) ==
  /\ IF userId = ""
       THEN dept' = dept /\ reply' = Reply("addDepartmentMember", 0, 400)
       ELSE IF dept = Absent
         THEN dept' = dept /\ reply' = Reply("addDepartmentMember", 0, 404)
         ELSE IF ~MayManage(dept, u)
           THEN dept' = dept /\ reply' = Reply("addDepartmentMember", 0, 403)
           ELSE IF Includes(dept.members, userId)
             THEN dept' = dept /\ reply' = Reply("addDepartmentMember", 0, 400)
             ELSE /\ dept' = autoPopulateHead([dept EXCEPT !.members = Append(@, userId)], FALSE, FALSE)
                  /\ reply' = Reply("addDepartmentMember", 0, 200)
  /\ UNCHANGED appRest /\ UNCHANGED <<reportVars, msgVars>>

\* removeDepartmentMember: refuses to remove the head, filters the member
\* out and saves the department
removeDepartmentMember(u, userId) ==
  /\ IF dept = Absent
       THEN dept' = dept /\ reply' = Reply("removeDepartmentMember", 0, 404)
       ELSE IF ~MayManage(dept, u)
         THEN dept' = dept /\ reply' = Reply("removeDepartmentMember", 0, 403)
         ELSE IF dept.head = userId
           THEN dept' = dept /\ reply' = Reply("removeDepartmentMember", 0, 400)
           ELSE /\ dept' = autoPopulateHead([dept EXCEPT !.members = Without(@, userId)], FALSE, FALSE)
                /\ reply' = Reply("removeDepartmentMember", 0, 200)
  /\ UNCHANGED appRest /\ UNCHANGED <<reportVars, msgVars>>

\* a stored report template
Template(t, f, v) == [exists |-> TRUE, template |-> t, defaultFilters |-> f, version |-> v]

\* schema defaults: version 1, defaultFilters {}
DefaultVersion == 1
DefaultFilters == "{}"

\* values of the template and defaultFilters fields
Layouts == {"t1", "t2"}
Filters == {DefaultFilters, "f1"}

\* reportTemplateSchema.pre('save')
bumpVersion(d, templateModified, filtersModified) ==
  IF templateModified \/ filtersModified THEN [d EXCEPT !.version = @ + 1] ELSE d

\* save() of a new template: every path the constructor was given counts
\* as modified, and template is required
createTemplate(t, f) ==
  /\ tmpl = Absent
  /\ tmpl' = bumpVersion(Template(t, f, DefaultVersion), TRUE, f # DefaultFilters)
  /\ reply' = Reply("createTemplate", 0, 201)
  /\ UNCHANGED <<reports, dept, event, regs>> /\ UNCHANGED <<reportVars, msgVars>>

\* save() of a stored template after assigning template and defaultFilters:
\* a path is modified when the value assigned differs from the one loaded
saveTemplate(t, f) ==
  /\ tmpl # Absent
  /\ tmpl.version < MaxVersion
  /\ tmpl' = bumpVersion([tmpl EXCEPT !.template = t, !.defaultFilters = f], t # tmpl.template, f # tmpl.defaultFilters)
  /\ reply' = Reply("saveTemplate", 0, 200)
  /\ UNCHANGED <<reports, dept, event, regs>> /\ UNCHANGED <<reportVars, msgVars>>

NextApp ==
  \/ \E valid \in BOOLEAN : createReport(valid)
  \/ \E id \in 1..MaxReports : deleteReport(id)
  \/ \E u \in Actors, body \in DepartmentBodies : createDepartment(u, body)
  \/ \E u \in Actors, body \in DepartmentUpdates : updateDepartment(u, body)
  \/ \E u \in Actors : deleteDepartment(u)
  \/ \E u \in Actors, userId \in MemberIds : addDepartmentMember(u, userId)
  \/ \E u \in Actors, userId \in MemberIds \ {""} : removeDepartmentMember(u, userId)
  \/ \E t \in Layouts, f \in Filters : createTemplate(t, f)
  \/ \E t \in Layouts, f \in Filters : saveTemplate(t, f)

SpecApp == InitMsg /\ [][NextApp]_vars

C24_StillStored ==
  reply.op = "deleteReport" /\ reply.status = 200 /\ reply.id \in reports

\* C25: after any sequence of department create, update, add-member and
\* remove-member requests the head of the department is one of its members
C25_HeadIsMember == dept # Absent => Includes(dept.members, dept.head)

\* an update has been accepted and the head is not among the members
C25_HeadOutside ==
  /\ reply.op = "updateDepartment" /\ reply.status = 200
  /\ dept # Absent /\ ~Includes(dept.members, dept.head)

\* C26: a new template is stored with version 1, a save that modifies
\* template or defaultFilters raises the version by exactly one, a save
\* that modifies neither leaves it, and the version never decreases
C26_VersionCountsUpdates ==
  [][/\ (tmpl = Absent /\ tmpl' # Absent => tmpl'.version = 1)
     /\ (tmpl # Absent /\ tmpl' # Absent =>
           /\ tmpl'.version >= tmpl.version
           /\ tmpl'.version = tmpl.version + IF tmpl'.template # tmpl.template \/ tmpl'.defaultFilters # tmpl.defaultFilters THEN 1 ELSE 0)]_vars

\* a template has just been created and carries version 2
C26_CreatedAtTwo ==
  reply.op = "createTemplate" /\ tmpl # Absent /\ tmpl.version = 2

----------------------------------------------------------------------------
(* Event registration *)

\* an event created without maxAttendees
NoLimit == 0

\* a stored event; deadline tells whether registrationDeadline is unset,
\* already past, or still ahead
Event(max, deadline, attendees) == [exists |-> TRUE, maxAttendees |-> max, deadline |-> deadline, attendees |-> attendees]

\* eventSchema.methods.isRegistrationOpen
isRegistrationOpen(e) == e.deadline # "past"

\* eventSchema.methods.isFull
isFull(e) ==
  IF e.maxAttendees # NoLimit THEN Len(e.attendees) >= e.maxAttendees ELSE FALSE

\* users that register
Guests == {"u1", "u2"}

\* slots for registerForEvent requests in flight
RegSlots == 1..MaxRegs

\* a registerForEvent request that has loaded the event and passed the
\* checks, about to push its user and save
Loaded(u, e) == [pc |-> "save", user |-> u, doc |-> e]

\* createEvent: Event.create(req.body)
createEvent(max, deadline) ==
  /\ event = Absent
  /\ event' = Event(max, deadline, <<>>)
  /\ reply' = Reply("createEvent", 0, 201)
  /\ UNCHANGED <<reports, dept, tmpl, regs>> /\ UNCHANGED <<reportVars, msgVars>>

\* registerForEvent up to its await of save(): the event is loaded and
\* checked as it is in the store at this moment
registerLoad(s, u) ==
  /\ regs[s] = IdleReg
  /\ IF event = Absent
       THEN regs' = regs /\ reply' = Reply("registerForEvent", s, 404)
       ELSE IF ~isRegistrationOpen(event) \/ isFull(event) \/ Includes(event.attendees, u)
         THEN regs' = regs /\ reply' = Reply("registerForEvent", s, 400)
         ELSE regs' = [regs EXCEPT ![s] = Loaded(u, event)] /\ reply' = reply
  /\ UNCHANGED <<reports, dept, tmpl, event>> /\ UNCHANGED <<reportVars, msgVars>>

\* the save() of registerForEvent: the push on the loaded array is sent as
\* a $push, which appends to the array as stored now
registerSave(s) ==
  /\ regs[s] # IdleReg
  /\ event' = [event EXCEPT !.attendees = Append(@, regs[s].user)]
  /\ regs' = [regs EXCEPT ![s] = IdleReg]
  /\ reply' = Reply("registerForEvent", s, 200)
  /\ UNCHANGED <<reports, dept, tmpl>> /\ UNCHANGED <<reportVars, msgVars>>

NextEvent ==
  \/ \E max \in {NoLimit} \cup 1..MaxSeats, deadline \in {"none", "past", "ahead"} : createEvent(max, deadline)
  \/ \E s \in RegSlots, u \in Guests : registerLoad(s, u)
  \/ \E s \in RegSlots : registerSave(s)

SpecEvent == InitMsg /\ [][NextEvent]_vars

\* ---------------------------------------------------------------------
\* C27: for an event with maxAttendees set, after any interleaving of
\* concurrent registerForEvent requests the attendees are at most
\* maxAttendees and no user is listed twice
C27_NeverOverbooked ==
  event # Absent /\ event.maxAttendees # NoLimit =>
    /\ Len(event.attendees) <= event.maxAttendees
    /\ \A i, j \in DOMAIN event.attendees : event.attendees[i] = event.attendees[j] => i = j

\* two requests have both passed the checks for the last free place
C27_BothAdmitted ==
  /\ event # Absent /\ event.maxAttendees # NoLimit
  /\ \A s \in RegSlots : regs[s] # IdleReg
  /\ Len(event.attendees) + 1 = event.maxAttendees

====
